---- MODULE Spec2Model ----
(***************************************************************************)
(* AzureClient (trae_agent/utils/azure_client.py): the chat history kept   *)
(* by one client, the translation of provider-agnostic messages into       *)
(* provider records (parse_messages), and chat() with its retry-wrapped    *)
(* network call.                                                           *)
(*                                                                         *)
(* Python values are encoded as follows.                                   *)
(*   Optional[T]      None is <<>>, a present value v is <<v>>.            *)
(*   str              a TLA+ string; the texts of a tool result, which     *)
(*                    the code strips, are sequences of tokens, a token    *)
(*                    being one whitespace character or a chunk that       *)
(*                    neither starts nor ends with whitespace.             *)
(*   dict             a sequence of <<key, value>> pairs (insertion        *)
(*                    order), values being integers.                       *)
(*   an exception     a record [raised |-> TRUE, exc, msg].                *)
(*                                                                         *)
(* The operations of one client are called one at a time.  A call's        *)
(* arguments and the history at its entry are kept while it runs and in    *)
(* the state in which it has returned or raised (pc = "done"); the step    *)
(* Resume, the caller going on, drops them.                                *)
(***************************************************************************)
EXTENDS Integers, Sequences, FiniteSets, TLC

VARIABLES
    pc,                  \* "idle": the caller is about to call; "net": chat is inside the
                         \* retry wrapper; "done": an operation has just returned or raised
    message_history,     \* self.message_history
    trajectory_recorder, \* whether self.trajectory_recorder is set
    call,                \* the operation in progress or just finished, with its arguments
    pre,                 \* self.message_history when that operation was entered
    failures,            \* failed network invocations of that operation so far
    invocations,         \* network invocations of that operation so far
    sent,                \* Optional: the request of its latest network invocation
    outcome,             \* "none" (in progress), "returned", or the exception class raised
    err,                 \* the exception's message
    ret,                 \* the value returned
    recorded,            \* the records it handed to the trajectory recorder
    resent               \* Optional: the messages the previous operation sent to the
                         \* provider, when it was a chat that failed after its network call

vars == <<pc, message_history, trajectory_recorder, call, pre, failures,
          invocations, sent, outcome, err, ret, recorded, resent>>

(***************************************************************************)
(* Bounds of the model.                                                    *)
(***************************************************************************)
MaxMsgs == 2        \* longest message list handed to one call of the client
MaxHistory == 3     \* longest history a call may build
MaxRetries == 1     \* largest model_parameters.max_retries
MaxParseLen == 2    \* longest message list of the parse_messages specification

(***************************************************************************)
(* Python values.                                                          *)
(***************************************************************************)
None == <<>>
Some(x) == <<x>>
IsNone(o) == o = <<>>
Val(o) == o[1]

\* Truthiness of an Optional[str]: None and "" are falsy.
TruthyStr(o) == ~IsNone(o) /\ Val(o) # ""

Returned(v) == [raised |-> FALSE, value |-> v, exc |-> "", msg |-> ""]
Raise(exc, msg) == [raised |-> TRUE, value |-> <<>>, exc |-> exc, msg |-> msg]

\* The sequences over S of length at most n.
SeqsUpTo(S, n) == UNION {[1..k -> S] : k \in 0..n}

(***************************************************************************)
(* Text as tokens, str.strip() and the string the tokens spell.            *)
(***************************************************************************)
Whitespace == {" ", "\n", "\t"}

RECURSIVE lstrip(_)
lstrip(t) ==
    IF t # <<>> /\ Head(t) \in Whitespace THEN lstrip(Tail(t)) ELSE t

RECURSIVE rstrip(_)
rstrip(t) ==
    IF t # <<>> /\ t[Len(t)] \in Whitespace THEN rstrip(SubSeq(t, 1, Len(t) - 1)) ELSE t

strip(t) == rstrip(lstrip(t))

RECURSIVE Spell(_)
Spell(t) == IF t = <<>> THEN "" ELSE Head(t) \o Spell(Tail(t))

(***************************************************************************)
(* json.dumps and json.loads.                                              *)
(***************************************************************************)
RECURSIVE dumps_items(_)
dumps_items(d) ==
    IF d = <<>> THEN ""
    ELSE "\"" \o d[1][1] \o "\": " \o ToString(d[1][2])
         \o (IF Len(d) > 1 THEN ", " ELSE "") \o dumps_items(Tail(d))

\* json.dumps of a dict of integers.
json_dumps(d) == "{" \o dumps_items(d) \o "}"

\* The argument strings a provider sends in this model: two spellings of {"a": 1},
\* the empty object, the empty string and a string that is no JSON.
ArgStrings == {"", "{}", "{\"a\": 1}", "{\"a\":1}", "oops"}

\* json.loads on those strings.
json_loads(s) ==
    CASE s = "{}" -> Returned(<<>>)
      [] s \in {"{\"a\": 1}", "{\"a\":1}"} -> Returned(<< <<"a", 1>> >>)
      [] OTHER -> Raise("JSONDecodeError", "Expecting value")

(***************************************************************************)
(* The message model: LLMMessage(role, content, tool_call, tool_result),   *)
(* ToolCall(name, call_id, arguments), ToolResult(call_id, result, error). *)
(***************************************************************************)
LLMMessage(role, content, tool_call, tool_result) ==
    [role |-> role, content |-> content, tool_call |-> tool_call, tool_result |-> tool_result]

ToolCall(name, call_id, arguments) ==
    [name |-> name, call_id |-> call_id, arguments |-> arguments]

ToolResult(call_id, result, error) ==
    [call_id |-> call_id, result |-> result, error |-> error]

Roles == {"system", "user", "assistant", "bogus"}
PlainRoles == {"system", "user", "assistant"}
Contents == {None, Some(""), Some("hi")}
CallIds == {"c1", "c2"}

TC1 == ToolCall("bash", "c1", << <<"a", 1>> >>)
TR1 == ToolResult("c1", <<" ", "ok">>, <<>>)
TR2 == ToolResult("c2", <<"out">>, <<"boom", "\n">>)

\* Every combination of the four fields: the inputs of the parse_messages specification.
AllMessages ==
    {LLMMessage(r, c, tc, tr) :
        r \in Roles, c \in Contents, tc \in {None, Some(TC1)}, tr \in {None, Some(TR1), Some(TR2)}}

\* The messages handed to the client's operations.
UserHi == LLMMessage("user", Some("hi"), None, None)
SystemEmpty == LLMMessage("system", Some(""), None, None)
BogusHi == LLMMessage("bogus", Some("hi"), None, None)
ResultC1 == LLMMessage("user", None, None, Some(TR1))

ClientMessages == {UserHi, SystemEmpty, BogusHi, ResultC1}

(***************************************************************************)
(* parse_messages: the translation into provider records.                  *)
(***************************************************************************)
FailedPrefix == <<"Tool call failed with error:", "\n">>

\* The text of a tool record (the tool_result branch).
tool_result_content(tool_result) ==
    LET r0 == <<>>
        r1 == IF tool_result.result # <<>> THEN r0 \o tool_result.result \o <<"\n">> ELSE r0
        r2 == IF tool_result.error # <<>> THEN r1 \o FailedPrefix \o tool_result.error ELSE r1
    IN  Spell(strip(r2))

\* parse_message without the check of a system message's content.
parse_message_unchecked_system(msg) ==
    IF ~IsNone(msg.tool_call) THEN
        LET tc == Val(msg.tool_call)
        IN  Returned([role |-> "function",
                      content |-> "{\"name\": \"" \o tc.name \o "\", \"arguments\": "
                                  \o json_dumps(tc.arguments) \o "}",
                      name |-> tc.name])
    ELSE IF ~IsNone(msg.tool_result) THEN
        Returned([role |-> "tool",
                  content |-> tool_result_content(Val(msg.tool_result)),
                  tool_call_id |-> Val(msg.tool_result).call_id])
    ELSE IF msg.role = "system" THEN
        Returned([role |-> "system",
                  content |-> IF IsNone(msg.content) THEN "" ELSE Val(msg.content)])
    ELSE IF msg.role = "user" THEN
        IF ~TruthyStr(msg.content) THEN Raise("ValueError", "User message content is required")
        ELSE Returned([role |-> "user", content |-> Val(msg.content)])
    ELSE IF msg.role = "assistant" THEN
        IF ~TruthyStr(msg.content) THEN Raise("ValueError", "Assistant message content is required")
        ELSE Returned([role |-> "assistant", content |-> Val(msg.content)])
    ELSE Raise("ValueError", "Invalid message role: " \o msg.role)

\* One iteration of the loop: the record a message becomes, or the error raised.
parse_message(msg) ==
    IF ~IsNone(msg.tool_call) THEN
        LET tc == Val(msg.tool_call)
        IN  Returned([role |-> "function",
                      content |-> "{\"name\": \"" \o tc.name \o "\", \"arguments\": "
                                  \o json_dumps(tc.arguments) \o "}",
                      name |-> tc.name])
    ELSE IF ~IsNone(msg.tool_result) THEN
        Returned([role |-> "tool",
                  content |-> tool_result_content(Val(msg.tool_result)),
                  tool_call_id |-> Val(msg.tool_result).call_id])
    ELSE IF msg.role = "system" THEN
        IF ~TruthyStr(msg.content) THEN Raise("ValueError", "System message content is required")
        ELSE Returned([role |-> "system", content |-> Val(msg.content)])
    ELSE IF msg.role = "user" THEN
        IF ~TruthyStr(msg.content) THEN Raise("ValueError", "User message content is required")
        ELSE Returned([role |-> "user", content |-> Val(msg.content)])
    ELSE IF msg.role = "assistant" THEN
        IF ~TruthyStr(msg.content) THEN Raise("ValueError", "Assistant message content is required")
        ELSE Returned([role |-> "assistant", content |-> Val(msg.content)])
    ELSE Raise("ValueError", "Invalid message role: " \o msg.role)

\* The loop, with azure_messages the list built so far.
RECURSIVE parse_loop(_, _)
parse_loop(messages, azure_messages) ==
    IF messages = <<>> THEN Returned(azure_messages)
    ELSE LET r == parse_message(Head(messages))
         IN  IF r.raised THEN r
             ELSE parse_loop(Tail(messages), Append(azure_messages, r.value))

parse_messages(messages) == parse_loop(messages, <<>>)

(***************************************************************************)
(* Model parameters, tools and the provider's responses.                   *)
(***************************************************************************)
ModelParameters(model, max_retries) == [model |-> model, max_retries |-> max_retries]

TEST_MODEL == "qwen3:4b"
Models == {TEST_MODEL, "no such model"}

BashTool == [name |-> "bash", description |-> "run a command", input_schema |-> << <<"timeout", 1>> >>]
ToolChoices == {None, Some(<<BashTool>>)}

RawToolCall(id, name, arguments) ==
    [id |-> id, function |-> [name |-> name, arguments |-> arguments], type |-> "function"]

Choice(content, tool_calls) ==
    [message |-> [content |-> content, tool_calls |-> tool_calls], finish_reason |-> "stop"]

ChatCompletion(choices, usage) ==
    [choices |-> choices, model |-> "gpt-4o", usage |-> usage]

RespText ==
    ChatCompletion(<<Choice(Some("yo"), None)>>,
                   Some([prompt_tokens |-> Some(3), completion_tokens |-> None]))
RespEmpty == ChatCompletion(<<Choice(None, Some(<<>>))>>, None)
RespCalls ==
    ChatCompletion(<<Choice(None, Some(<<RawToolCall("c1", "bash", "{\"a\":1}"),
                                         RawToolCall("c2", "bash", "")>>))>>, None)
RespBadJson ==
    ChatCompletion(<<Choice(None, Some(<<RawToolCall("c2", "bash", "oops")>>))>>, None)
RespNoChoice == ChatCompletion(<<>>, None)

Responses == {RespText, RespEmpty, RespCalls, RespBadJson, RespNoChoice}

(***************************************************************************)
(* AzureClient.                                                            *)
(***************************************************************************)
BaseUrls == {"", "https://example.openai.azure.com"}

\* __init__: the client built, or the error raised.
construct(base_url) ==
    IF base_url = "" THEN Raise("ValueError", "base_url is required for AzureClient")
    ELSE Returned([message_history |-> <<>>])

\* supports_tool_calling answering from an allow-list of models.
supports_tool_calling_allow_list(model_parameters) == model_parameters.model \in {TEST_MODEL}

supports_tool_calling(model_parameters) == TRUE

\* set_chat_history appending to the stored history.
set_chat_history_appends(history, messages) ==
    LET r == parse_messages(messages)
    IN  IF r.raised THEN [result |-> r, message_history |-> history]
        ELSE [result |-> Returned(None), message_history |-> history \o r.value]

\* set_chat_history: what it returns or raises, and the history it leaves.
set_chat_history(history, messages) ==
    LET r == parse_messages(messages)
    IN  IF r.raised THEN [result |-> r, message_history |-> history]
        ELSE [result |-> Returned(None), message_history |-> r.value]

\* chat_store ignoring reuse_history.
chat_store_always_appends(history, azure_messages, reuse_history) == history \o azure_messages

\* The history chat stores before the network call.
chat_store(history, azure_messages, reuse_history) ==
    IF reuse_history THEN history \o azure_messages ELSE azure_messages

\* chat_begin going on without the messages when their translation raises.
chat_begin_skips_invalid(history, messages, reuse_history) ==
    LET r == parse_messages(messages)
    IN  IF r.raised THEN [result |-> Returned(<<>>), message_history |-> history]
        ELSE [result |-> r, message_history |-> chat_store(history, r.value, reuse_history)]

\* chat_begin dropping the old history before it translates, when reuse_history is false.
chat_begin_clears_first(history, messages, reuse_history) ==
    LET r == parse_messages(messages)
    IN  IF r.raised
        THEN [result |-> r, message_history |-> IF reuse_history THEN history ELSE <<>>]
        ELSE [result |-> r, message_history |-> chat_store(history, r.value, reuse_history)]

\* chat up to the network call: the translated messages or the error raised, and
\* the history it leaves.
chat_begin(history, messages, reuse_history) ==
    LET r == parse_messages(messages)
    IN  IF r.raised THEN [result |-> r, message_history |-> history]
        ELSE [result |-> r, message_history |-> chat_store(history, r.value, reuse_history)]

\* The tool schemas chat builds.
RECURSIVE schema_list(_)
schema_list(tools) ==
    IF tools = <<>> THEN <<>>
    ELSE <<[function |-> [name |-> Head(tools).name,
                          description |-> Head(tools).description,
                          parameters |-> Head(tools).input_schema],
            type |-> "function"]>> \o schema_list(Tail(tools))

tool_schemas(tools) ==
    IF ~IsNone(tools) /\ Val(tools) # <<>> THEN Some(schema_list(Val(tools))) ELSE None

\* chat_max_retries handing one retry more.
chat_max_retries_one_more(model_parameters) == model_parameters.max_retries + 1

\* The max_retries chat hands to retry_with.
chat_max_retries(model_parameters) == model_parameters.max_retries

\* The messages _create_azure_response hands to the provider.
request_messages(history) == history

\* _create_azure_response: the request made.
create_azure_response(history, model_parameters, schemas) ==
    [model |-> model_parameters.model,
     messages |-> request_messages(history),
     tools |-> IF ~IsNone(schemas) /\ Val(schemas) # <<>> THEN schemas ELSE None, \* None: NOT_GIVEN
     n |-> 1]

\* retry_with: whether the wrapper gives up after `failed` failed invocations.
retry_gives_up(failed, max_retries) == failed > max_retries

\* The ToolCalls chat reads from the choice's tool calls.
RECURSIVE read_tool_calls(_, _)
read_tool_calls(raw, tool_calls) ==
    IF raw = <<>> THEN Returned(Some(tool_calls))
    ELSE LET tool_call == Head(raw)
             arguments == IF tool_call.function.arguments # ""
                          THEN json_loads(tool_call.function.arguments)
                          ELSE Returned(<<>>)
         IN  IF arguments.raised THEN arguments
             ELSE read_tool_calls(Tail(raw),
                                  Append(tool_calls,
                                         ToolCall(tool_call.function.name, tool_call.id,
                                                  arguments.value)))

parse_tool_calls(choice) ==
    IF ~IsNone(choice.message.tool_calls) /\ Val(choice.message.tool_calls) # <<>>
    THEN read_tool_calls(Val(choice.message.tool_calls), <<>>)
    ELSE Returned(None)

OrZero(o) == IF IsNone(o) THEN 0 ELSE Val(o)

\* The LLMResponse chat builds.
build_llm_response(response, choice, tool_calls) ==
    [content |-> IF TruthyStr(choice.message.content) THEN Val(choice.message.content) ELSE "",
     tool_calls |-> tool_calls,
     finish_reason |-> choice.finish_reason,
     model |-> response.model,
     usage |-> IF ~IsNone(response.usage)
               THEN Some([input_tokens |-> OrZero(Val(response.usage).prompt_tokens),
                          output_tokens |-> OrZero(Val(response.usage).completion_tokens)])
               ELSE None]

\* tool_call_params putting the tool's name where the call's id belongs.
RECURSIVE tool_call_params_name_as_id(_)
tool_call_params_name_as_id(tool_calls) ==
    IF tool_calls = <<>> THEN <<>>
    ELSE <<[id |-> Head(tool_calls).name,
            function |-> [name |-> Head(tool_calls).name,
                          arguments |-> json_dumps(Head(tool_calls).arguments)],
            type |-> "function"]>> \o tool_call_params_name_as_id(Tail(tool_calls))

RECURSIVE tool_call_params(_)
tool_call_params(tool_calls) ==
    IF tool_calls = <<>> THEN <<>>
    ELSE <<[id |-> Head(tool_calls).call_id,
            function |-> [name |-> Head(tool_calls).name,
                          arguments |-> json_dumps(Head(tool_calls).arguments)],
            type |-> "function"]>> \o tool_call_params(Tail(tool_calls))

\* assistant_turn that never writes the tool-call form.
assistant_turn_content_only(llm_response) ==
    IF llm_response.content # "" THEN
        <<[role |-> "assistant", content |-> llm_response.content]>>
    ELSE <<>>

\* "update message history": the records chat appends for a response.
assistant_turn(llm_response) ==
    IF ~IsNone(llm_response.tool_calls) /\ Val(llm_response.tool_calls) # <<>> THEN
        <<[role |-> "assistant", content |-> llm_response.content,
           tool_calls |-> tool_call_params(Val(llm_response.tool_calls))]>>
    ELSE IF llm_response.content # "" THEN
        <<[role |-> "assistant", content |-> llm_response.content]>>
    ELSE <<>>

\* The record chat hands to the trajectory recorder, when one is set.
trajectory_records(recorder, messages, llm_response, model_parameters, tools) ==
    IF recorder
    THEN <<[messages |-> messages, response |-> llm_response, provider |-> "azure",
            model |-> model_parameters.model, tools |-> tools]>>
    ELSE <<>>

\* chat_finish writing an assistant record before it reads the tool calls.
chat_finish_appends_first(history, response, recorder, messages, model_parameters, tools) ==
    IF response.choices = <<>> THEN
        [result |-> Raise("IndexError", "list index out of range"),
         message_history |-> history, recorded |-> <<>>]
    ELSE
        LET choice == response.choices[1]
            tool_calls == parse_tool_calls(choice)
        IN  IF tool_calls.raised THEN
                [result |-> tool_calls,
                 message_history |-> history \o <<[role |-> "assistant", content |-> ""]>>,
                 recorded |-> <<>>]
            ELSE
                LET llm_response == build_llm_response(response, choice, tool_calls.value)
                IN  [result |-> Returned(llm_response),
                     message_history |-> history \o assistant_turn(llm_response),
                     recorded |-> trajectory_records(recorder, messages, llm_response,
                                                     model_parameters, tools)]

\* chat from the response on: what it returns or raises, and the history it leaves.
chat_finish(history, response, recorder, messages, model_parameters, tools) ==
    IF response.choices = <<>> THEN
        [result |-> Raise("IndexError", "list index out of range"),
         message_history |-> history, recorded |-> <<>>]
    ELSE
        LET choice == response.choices[1]
            tool_calls == parse_tool_calls(choice)
        IN  IF tool_calls.raised THEN
                [result |-> tool_calls, message_history |-> history, recorded |-> <<>>]
            ELSE
                LET llm_response == build_llm_response(response, choice, tool_calls.value)
                IN  [result |-> Returned(llm_response),
                     message_history |-> history \o assistant_turn(llm_response),
                     recorded |-> trajectory_records(recorder, messages, llm_response,
                                                     model_parameters, tools)]

(***************************************************************************)
(* The state machine: one client, its operations called one at a time.     *)
(***************************************************************************)
Call(op, messages, reuse_history, model_parameters, tools) ==
    [op |-> op, messages |-> messages, reuse_history |-> reuse_history,
     model_parameters |-> model_parameters, tools |-> tools]

NoParameters == ModelParameters(TEST_MODEL, 0)

ClientLists == SeqsUpTo(ClientMessages, MaxMsgs)
ParseLists == SeqsUpTo(AllMessages, MaxParseLen)
ChatParameters == {ModelParameters(TEST_MODEL, r) : r \in 0..MaxRetries}

Init ==
    \E base_url \in BaseUrls, recorder \in BOOLEAN :
        LET c == construct(base_url)
        IN  /\ ~c.raised
            /\ message_history = c.value.message_history
            /\ trajectory_recorder = recorder
            /\ pc = "done"
            /\ call = Call("construct", <<>>, FALSE, NoParameters, None)
            /\ pre = <<>>
            /\ failures = 0
            /\ invocations = 0
            /\ sent = None
            /\ outcome = "returned"
            /\ err = ""
            /\ ret = None
            /\ recorded = <<>>
            /\ resent = None

\* An operation is entered.
Enter(c) ==
    /\ pc = "idle"
    /\ call' = c
    /\ pre' = message_history
    /\ failures' = 0
    /\ invocations' = 0
    /\ sent' = None
    /\ recorded' = <<>>
    /\ UNCHANGED <<trajectory_recorder, resent>>

\* An operation returns or raises.
Finish(result) ==
    /\ pc' = "done"
    /\ outcome' = IF result.raised THEN result.exc ELSE "returned"
    /\ err' = result.msg
    /\ ret' = IF result.raised THEN None ELSE result.value

SetChatHistory(messages) ==
    LET r == set_chat_history(message_history, messages)
    IN  /\ Enter(Call("set_chat_history", messages, FALSE, NoParameters, None))
        /\ message_history' = r.message_history
        /\ Finish(r.result)

ParseMessages(messages) ==
    /\ Enter(Call("parse_messages", messages, FALSE, NoParameters, None))
    /\ UNCHANGED message_history
    /\ Finish(parse_messages(messages))

SupportsToolCalling(model_parameters) ==
    /\ Enter(Call("supports_tool_calling", <<>>, FALSE, model_parameters, None))
    /\ UNCHANGED message_history
    /\ Finish(Returned(supports_tool_calling(model_parameters)))

\* chat is called: either validation fails, or the history is updated and the
\* retry wrapper is entered.
ChatBegin(messages, model_parameters, tools, reuse_history) ==
    LET r == chat_begin(message_history, messages, reuse_history)
    IN  /\ Enter(Call("chat", messages, reuse_history, model_parameters, tools))
        /\ message_history' = r.message_history
        /\ IF r.result.raised
           THEN Finish(r.result)
           ELSE /\ Len(r.message_history) < MaxHistory
                /\ pc' = "net"
                /\ outcome' = "none"
                /\ err' = ""
                /\ ret' = None

Request ==
    create_azure_response(message_history, call.model_parameters, tool_schemas(call.tools))

\* One invocation of _create_azure_response fails: the wrapper invokes it again,
\* or gives up and the failure reaches chat's caller.
NetFail ==
    /\ pc = "net"
    /\ invocations' = invocations + 1
    /\ failures' = failures + 1
    /\ sent' = Some(Request)
    /\ IF retry_gives_up(failures + 1, chat_max_retries(call.model_parameters))
       THEN Finish(Raise("APIError", "request failed"))
       ELSE UNCHANGED <<pc, outcome, err, ret>>
    /\ UNCHANGED <<message_history, trajectory_recorder, call, pre, recorded, resent>>

\* One invocation returns a response: chat runs to its end.
NetReturn(response) ==
    LET f == chat_finish(message_history, response, trajectory_recorder, call.messages,
                         call.model_parameters, call.tools)
    IN  /\ pc = "net"
        /\ invocations' = invocations + 1
        /\ sent' = Some(Request)
        /\ message_history' = f.message_history
        /\ recorded' = f.recorded
        /\ Finish(f.result)
        /\ UNCHANGED <<trajectory_recorder, call, pre, failures, resent>>

\* The caller has the result and goes on: the finished call's bookkeeping is dropped.
Resume ==
    /\ pc = "done"
    /\ pc' = "idle"
    /\ call' = Call("none", <<>>, FALSE, NoParameters, None)
    /\ pre' = message_history
    /\ failures' = 0
    /\ invocations' = 0
    /\ sent' = None
    /\ outcome' = "none"
    /\ err' = ""
    /\ ret' = None
    /\ recorded' = <<>>
    /\ resent' = IF call.op = "chat" /\ outcome # "returned" /\ ~IsNone(sent)
                 THEN Some(Val(sent).messages) ELSE None
    /\ UNCHANGED <<message_history, trajectory_recorder>>

Next ==
    \/ pc = "idle" /\ \E messages \in ClientLists : SetChatHistory(messages)
    \/ pc = "idle" /\ \E messages \in ClientLists : ParseMessages(messages)
    \/ pc = "idle" /\ \E model \in Models : SupportsToolCalling(ModelParameters(model, 0))
    \/ pc = "idle" /\ \E messages \in ClientLists, model_parameters \in ChatParameters,
          tools \in ToolChoices, reuse_history \in BOOLEAN :
            ChatBegin(messages, model_parameters, tools, reuse_history)
    \/ NetFail
    \/ \E response \in Responses : NetReturn(response)
    \/ Resume

Spec == Init /\ [][Next]_vars

(***************************************************************************)
(* parse_messages on its own: every list of messages, each message any     *)
(* combination of the four fields.                                         *)
(***************************************************************************)
InitParse ==
    \E messages \in ParseLists :
        /\ message_history = <<>>
        /\ trajectory_recorder = FALSE
        /\ pc = "idle"
        /\ call = Call("parse_messages", messages, FALSE, NoParameters, None)
        /\ pre = <<>>
        /\ failures = 0
        /\ invocations = 0
        /\ sent = None
        /\ outcome = "none"
        /\ err = ""
        /\ ret = None
        /\ recorded = <<>>
        /\ resent = None

ParseApply ==
    /\ pc = "idle"
    /\ Finish(parse_messages(call.messages))
    /\ UNCHANGED <<message_history, trajectory_recorder, call, pre, failures,
                   invocations, sent, recorded, resent>>

SpecParse == InitParse /\ [][ParseApply]_vars

(***************************************************************************)
(* chat with the scheduling the code has: a network invocation in progress *)
(* ends, by returning or by raising.                                       *)
(***************************************************************************)
RetryLists == SeqsUpTo({UserHi}, 1)

NetStep == NetFail \/ \E response \in Responses : NetReturn(response)

NextRetry ==
    \/ pc = "idle" /\ \E messages \in RetryLists, model_parameters \in ChatParameters,
                          reuse_history \in BOOLEAN :
                            ChatBegin(messages, model_parameters, None, reuse_history)
    \/ NetFail
    \/ \E response \in Responses : NetReturn(response)
    \/ Resume

SpecRetry == Init /\ [][NextRetry]_vars /\ WF_vars(NetStep)

(***************************************************************************)
(* The claims.                                                             *)
(***************************************************************************)
Translated(messages) == parse_messages(messages).value

IsPrefix(p, q) == Len(p) <= Len(q) /\ SubSeq(q, 1, Len(p)) = p

\* A chat that got past the translation of its messages.
ChatPastValidation ==
    call.op = "chat" /\ (pc = "net" \/ (pc = "done" /\ outcome # "ValueError"))

\* A chat that raised after its network call was entered.
ChatFailedLate ==
    call.op = "chat" /\ pc = "done" /\ outcome \in {"APIError", "JSONDecodeError", "IndexError"}

ChatReturned == call.op = "chat" /\ pc = "done" /\ outcome = "returned"

\* The history chat is to hand to the provider: the old one and the translated
\* messages, or the translated messages alone.
Expected ==
    IF call.reuse_history THEN pre \o Translated(call.messages) ELSE Translated(call.messages)

\* C1: whenever chat has invoked the network call, the messages of the request are
\* the history at entry followed by the translated messages when reuse_history is
\* true, and the translated messages alone when it is false.
C1_SentHistory ==
    (call.op = "chat" /\ ~IsNone(sent)) => Val(sent).messages = Expected

\* A second invocation (a retry) of a chat with reuse_history on a non-empty history.
C1_Witness ==
    /\ call.op = "chat" /\ ~IsNone(sent) /\ invocations = 2
    /\ call.reuse_history /\ pre # <<>> /\ call.messages # <<>>

\* C2: a chat whose message list fails validation raises the validation error
\* with no network invocation made.
C2_ValidationBeforeNetwork ==
    /\ (call.op = "chat" /\ parse_messages(call.messages).raised) =>
            /\ pc = "done"
            /\ outcome = "ValueError"
            /\ err = parse_messages(call.messages).msg
    /\ (call.op = "chat" /\ outcome = "ValueError") => (invocations = 0 /\ IsNone(sent))

\* chat raised for an unrecognized role that follows a valid message.
C2_Witness ==
    /\ call.op = "chat" /\ pc = "done" /\ outcome = "ValueError"
    /\ call.messages = <<UserHi, BogusHi>> /\ invocations = 0

\* C3: the network call of one chat is invoked at most max_retries + 1 times; a
\* chat all of whose invocations fail raises the failure after exactly that many;
\* a chat one of whose invocations succeeds does not raise it; and a chat inside
\* the retry wrapper always comes out of it.
C3_RetryBounded ==
    /\ [](call.op = "chat" =>
            /\ invocations <= call.model_parameters.max_retries + 1
            /\ failures <= invocations
            /\ (outcome = "APIError" =>
                    /\ pc = "done"
                    /\ failures = call.model_parameters.max_retries + 1
                    /\ invocations = failures
                    /\ ret = None)
            /\ (pc = "done" /\ failures < invocations =>
                    /\ outcome # "APIError"
                    /\ failures <= call.model_parameters.max_retries))
    /\ ((pc = "net") ~> (pc = "done"))

\* chat raised the failure after its retries were used up, more than one of them.
C3_Witness ==
    /\ call.op = "chat" /\ pc = "done" /\ outcome = "APIError"
    /\ call.model_parameters.max_retries >= 1
    /\ invocations = call.model_parameters.max_retries + 1

\* The records a returned chat added after the messages it sent.
Added == SubSeq(message_history, Len(Val(sent).messages) + 1, Len(message_history))

HasToolCalls(llm_response) ==
    ~IsNone(llm_response.tool_calls) /\ Val(llm_response.tool_calls) # <<>>

\* C4 as stated: every chat that returns leaves the history it sent plus exactly
\* one assistant record.
C4_AlwaysOneAssistantRecord ==
    ChatReturned =>
        /\ IsPrefix(Val(sent).messages, message_history)
        /\ Len(Added) = 1
        /\ Added[1].role = "assistant"

\* C4, amended: a chat that returns leaves the history it sent plus one assistant
\* record in the tool-call form when the response has tool calls, plus one plain
\* assistant record when it has none and its content is not empty, and plus
\* nothing when it has no tool calls and empty content.
C4_AssistantTurn ==
    ChatReturned =>
        /\ IsPrefix(Val(sent).messages, message_history)
        /\ IF HasToolCalls(ret) THEN
                /\ Len(Added) = 1
                /\ Added[1].role = "assistant"
                /\ Added[1].content = ret.content
                /\ DOMAIN Added[1] = {"role", "content", "tool_calls"}
                /\ Len(Added[1].tool_calls) = Len(Val(ret.tool_calls))
           ELSE IF ret.content # "" THEN
                Added = <<[role |-> "assistant", content |-> ret.content]>>
           ELSE Added = <<>>

\* chat returned a response with no tool calls and empty content.
C4_Witness ==
    /\ ChatReturned /\ ~HasToolCalls(ret) /\ ret.content = ""
    /\ message_history = Val(sent).messages /\ message_history # <<>>

\* What the claims call an invalid message, by role and content alone.
EmptyContent(msg) == msg.role \in PlainRoles /\ ~TruthyStr(msg.content)
UnknownRole(msg) == msg.role \notin PlainRoles
Plain(msg) == IsNone(msg.tool_call) /\ IsNone(msg.tool_result)

\* C5 as stated: a list raises a validation error whenever one of its messages
\* has role system, user or assistant and empty content, or an unrecognized role,
\* whatever its other fields; the error names the role when the first such
\* message is one with an unrecognized role.
C5_WhateverOtherFields ==
    (call.op = "parse_messages" /\ pc = "done") =>
        \A i \in 1..Len(call.messages) :
            LET msg == call.messages[i]
                first == \A j \in 1..(i - 1) : ~EmptyContent(call.messages[j])
                                               /\ ~UnknownRole(call.messages[j])
            IN  /\ (EmptyContent(msg) \/ UnknownRole(msg)) => outcome = "ValueError"
                /\ (UnknownRole(msg) /\ first) => err = "Invalid message role: " \o msg.role

\* C5, amended: the same of the messages that carry neither tool_call nor
\* tool_result; a list with no such invalid message is translated record for
\* record, none dropped.
C5_PlainMessagesValidated ==
    (call.op = "parse_messages" /\ pc = "done") =>
        LET bad(i) == Plain(call.messages[i])
                      /\ (EmptyContent(call.messages[i]) \/ UnknownRole(call.messages[i]))
        IN  /\ \A i \in 1..Len(call.messages) :
                    LET msg == call.messages[i]
                        first == \A j \in 1..(i - 1) : ~bad(j)
                    IN  /\ bad(i) => outcome = "ValueError"
                        /\ (bad(i) /\ first /\ UnknownRole(msg)) =>
                                err = "Invalid message role: " \o msg.role
                        /\ (bad(i) /\ first /\ EmptyContent(msg)) =>
                                err \in {"System message content is required",
                                         "User message content is required",
                                         "Assistant message content is required"}
            /\ (\A i \in 1..Len(call.messages) : ~bad(i)) =>
                    /\ outcome = "returned"
                    /\ Len(ret) = Len(call.messages)

\* A plain system message with empty content after a valid message raised.
C5_Witness ==
    /\ call.op = "parse_messages" /\ pc = "done" /\ outcome = "ValueError"
    /\ Len(call.messages) = 2
    /\ ~EmptyContent(call.messages[1]) /\ ~UnknownRole(call.messages[1])
    /\ Plain(call.messages[2]) /\ call.messages[2].role = "system"
    /\ ~TruthyStr(call.messages[2].content)

\* C6 as stated: supports_tool_calling is true for "qwen3:4b" and false for
\* "no such model".
C6_AllowList ==
    (call.op = "supports_tool_calling" /\ pc = "done") =>
        /\ outcome = "returned"
        /\ ret = (call.model_parameters.model = TEST_MODEL)

\* C6, amended: supports_tool_calling of this client is true for every model.
C6_AlwaysTrue ==
    (call.op = "supports_tool_calling" /\ pc = "done") =>
        /\ outcome = "returned"
        /\ ret = TRUE

\* supports_tool_calling returned for "no such model".
C6_Witness ==
    /\ call.op = "supports_tool_calling" /\ pc = "done"
    /\ call.model_parameters.model = "no such model" /\ ret = TRUE

\* A message whose payload is a tool result.
IsToolResult(msg) == IsNone(msg.tool_call) /\ ~IsNone(msg.tool_result)

\* Where the i-th message of the chat in progress is stored in the history.
Stored(i) == message_history[(IF call.reuse_history THEN Len(pre) ELSE 0) + i]

IsAssistantCall(record, id) ==
    /\ record.role = "assistant"
    /\ "tool_calls" \in DOMAIN record
    /\ \E j \in 1..Len(record.tool_calls) : record.tool_calls[j].id = id

\* C7: the assistant record a returned chat appends carries a tool call with the
\* id of every tool call of the response; and the record a chat stores for a
\* tool_result message is a tool record whose tool_call_id is the message's call_id.
C7_RoundTrip ==
    /\ (ChatReturned /\ HasToolCalls(ret)) =>
            \A i \in 1..Len(Val(ret.tool_calls)) :
                /\ message_history # <<>>
                /\ IsAssistantCall(message_history[Len(message_history)],
                                   Val(ret.tool_calls)[i].call_id)
    /\ ChatPastValidation =>
            \A i \in 1..Len(call.messages) :
                IsToolResult(call.messages[i]) =>
                    /\ Stored(i).role = "tool"
                    /\ Stored(i).tool_call_id = Val(call.messages[i].tool_result).call_id

\* A chat stored the result of a call whose id an earlier chat's assistant record carries.
C7_Witness ==
    /\ ChatPastValidation /\ call.reuse_history
    /\ \E k \in 1..Len(pre), i \in 1..Len(call.messages) :
            /\ IsToolResult(call.messages[i])
            /\ IsAssistantCall(pre[k], Val(call.messages[i].tool_result).call_id)
            /\ Stored(i).role = "tool"
            /\ Stored(i).tool_call_id = Val(call.messages[i].tool_result).call_id

\* C8: the history is empty after construction, is what it was when
\* supports_tool_calling or parse_messages was entered and whenever no operation
\* is in progress, and after a set_chat_history that returns it is the translation
\* of the argument, no network call having been made.
C8_HistoryFrame ==
    /\ call.op = "construct" => message_history = <<>>
    /\ call.op \in {"supports_tool_calling", "parse_messages", "none"} =>
            message_history = pre
    /\ call.op = "set_chat_history" =>
            /\ invocations = 0
            /\ IsNone(sent)
            /\ outcome = "returned" => message_history = Translated(call.messages)

\* set_chat_history replaced a non-empty history by a different one.
C8_Witness ==
    /\ call.op = "set_chat_history" /\ pc = "done" /\ outcome = "returned"
    /\ pre # <<>> /\ call.messages # <<>> /\ message_history # pre
    /\ ~IsPrefix(pre, message_history)

\* C9: a chat or set_chat_history that raises a validation error leaves the
\* history what it was at entry.
C9_ValidationAtomic ==
    (call.op \in {"chat", "set_chat_history"} /\ pc = "done" /\ outcome = "ValueError") =>
        message_history = pre

\* chat without reuse_history raised on the second message, the first being valid,
\* on a non-empty history.
C9_Witness ==
    /\ call.op = "chat" /\ pc = "done" /\ outcome = "ValueError"
    /\ ~call.reuse_history /\ pre # <<>>
    /\ Len(call.messages) = 2 /\ ~parse_message(call.messages[1]).raised

\* C10: a chat that raises after its network call was entered leaves the history
\* it sent (the history at entry and the translated messages, or the translated
\* messages alone), no assistant record added, nothing returned and no trajectory
\* record emitted; and a chat with reuse_history that follows it sends those
\* messages again, first.
C10_NoRollback ==
    /\ ChatFailedLate =>
            /\ message_history = Expected
            /\ message_history = Val(sent).messages
            /\ ret = None
            /\ recorded = <<>>
    /\ (call.op = "chat" /\ call.reuse_history /\ ~IsNone(resent) /\ ~IsNone(sent)) =>
            /\ pre = Val(resent)
            /\ IsPrefix(Val(resent), Val(sent).messages)

\* On a client with a recorder, a chat raised after sending a non-empty history
\* and the next chat, with reuse_history, has invoked the network call.
C10_Witness ==
    /\ call.op = "chat" /\ call.reuse_history /\ ~IsNone(sent)
    /\ ~IsNone(resent) /\ Val(resent) # <<>>
    /\ trajectory_recorder

====
